---- MODULE Spec2Model ----
(***************************************************************************)
(* A model of the document store of AiManager,                             *)
(* src/src/core/file-operations.js (class FileOperations): the lock        *)
(* manager (acquireLock, releaseLock, readLockFile and the auto-release    *)
(* timer), the atomic writer (atomicWrite, createBackup), the recovery     *)
(* engine (safeJSONRead, restoreFromBackup) and the facade                 *)
(* (updateWorkerStatus, readWorkerStatus), run by several operating-system *)
(* processes that share one document path, a worker status file           *)
(* `worker-<id>.json`, on one filesystem.  Each process is a Node.js event loop: *)
(* it runs one asynchronous call chain, and every `await` on a filesystem  *)
(* call is a point where the other processes (and the process's own timer  *)
(* callbacks) may run.  One action of the model is one filesystem call    *)
(* together with the synchronous code that follows it up to the next one.  *)
(***************************************************************************)
EXTENDS Naturals, Integers, Sequences, FiniteSets, TLC

\* The processes (one FileOperations singleton each, line 421); each has its
\* own AIMANAGER_WORKER_ID, so the process name is also its workerId.
Procs == {"p1", "p2"}

\* Bounds of the model: the clock stops at MaxTime, and at most MaxIds lock
\* ids are ever generated.
MaxTime == 3
MaxIds == 3
MaxStamp == 12

\* this.maxLockTime (line 13): 30000 ms, here 2 ticks of 15 s.
maxLockTime == 2

\* The timeouts a caller may pass to acquireLock (default: this.maxLockTime).
Timeouts == {maxLockTime}
\* Line 20: a caller may pass any timeout; one shorter than the default.
ShortTimeout == 1
AnyTimeouts == {ShortTimeout, maxLockTime}

None == "none"

\* The lock file when the path does not exist, and a process's this.locks
\* when it has no entry for the path.
NoLockFile == [st |-> "absent", lockId |-> 0, workerId |-> None, timestamp |-> 0]
NoEntry == [lockId |-> 0, ts |-> 0, due |-> 0, timeout |-> 0]

\* A lock file whose write (line 45) was cut short by the death of the
\* process: a strict prefix of the JSON text, which does not parse.
TornLockFile == [st |-> "torn", lockId |-> 0, workerId |-> None, timestamp |-> 0]

\* ------------------------------------------------------- documents

\* The worker whose status file the document is (worker-<DocWorker>.json), and
\* another worker id a document may carry.
DocWorker == "zephyr"
Workers == {DocWorker, "nova"}

\* A document's value: two of its fields (a, b: say status and current_focus),
\* worker_id and last_update.
DocVal(a, b, w, u) == [a |-> a, b |-> b, wid |-> w, upd |-> u]
NoVal == DocVal(0, 0, None, 0)

\* A file's bytes: "absent" (no such path), "text" (JSON text of val),
\* "fixable" (text that JSON.parse rejects and attemptJSONRecovery repairs to
\* val), "garbage" (text neither parses nor repairs).
Absent == [kind |-> "absent", val |-> NoVal]
Text(v) == [kind |-> "text", val |-> v]
Fixable(v) == [kind |-> "fixable", val |-> v]
Garbage == [kind |-> "garbage", val |-> NoVal]

\* JSON.parse of a file's bytes: whether it succeeds, and its result.
ParseOk(bytes) == bytes.kind = "text"
Parse(bytes) == bytes.val

\* attemptJSONRecovery (lines 172-207): whether the repaired text parses, and
\* the value it parses to.  The JSON text of a worker document does not come
\* through the repairs: line 179 puts quotes around every word before a
\* colon, also inside the ISO time of last_update, and the result does not
\* parse (null, line 205).
RecoveryOk(bytes) == bytes.kind = "fixable"
attemptJSONRecovery(bytes) == bytes.val

\* The data argument of atomicWrite: an object, a string passed through as it
\* is (line 97), or a value JSON.stringify throws on (a circular structure).
ObjData(v) == [type |-> "object", val |-> v, str |-> Absent]
StrData(bytes) == [type |-> "string", val |-> NoVal, str |-> bytes]
Circular == [type |-> "circular", val |-> NoVal, str |-> Absent]

\* Line 97: dataString, for data JSON.stringify does not throw on.
Stringify(d) == IF d.type = "string" THEN d.str ELSE Text(d.val)
Serializable(d) == d.type # "circular"

\* The document a run may find, and the one the callers of atomicWrite write.
OldDoc == DocVal(2, 2, "nova", 0)
NewDoc == DocVal(1, 1, "nova", 0)

\* The data the callers of the model pass to atomicWrite.
WriteData == { ObjData(NewDoc), StrData(Garbage), Circular }

\* The updates argument of updateWorkerStatus: for each field the new value,
\* or Keep when the field is not named.
Keep == 0 - 1
NoUpdates == [a |-> Keep, b |-> Keep]
SetA == [a |-> 1, b |-> Keep]
SetB == [a |-> Keep, b |-> 1]
Updates == { SetA, SetB }

\* The list today.completed of a worker document is kept in field a, as the
\* set of its entries: each entry is a power of two, the list is their sum.
\* Each process adds one entry of its own.
NoEntries == 0
EntryOf(p) == IF p = "p1" THEN 1 ELSE 2
HasEntry(list, e) == (list \div e) % 2 = 1
\* [...completed, entry], for an entry the list does not hold.
AppendEntry(list, e) == list + e
EmptyDoc == DocVal(NoEntries, 0, "nova", 0)

\* tasks.json with one task: field a is the task's assigned_to, the number of
\* the worker or Unassigned.
Unassigned == 0
WorkerNo(p) == IF p = "p1" THEN 1 ELSE 2
TaskDoc(assigned) == DocVal(assigned, 0, "nova", 0)

\* A slip of the merge: the fields the updates do not name are dropped.
MergeDropsOld(cur, u, w, t) ==
    DocVal(IF u.a = Keep THEN 0 ELSE u.a, IF u.b = Keep THEN 0 ELSE u.b, w, t)

\* Lines 389-394: updatedData.
Merge(cur, u, w, t) ==
    DocVal(IF u.a = Keep THEN cur.a ELSE u.a, IF u.b = Keep THEN cur.b ELSE u.b, w, t)

\* getDefaultStructure (lines 308-332) for the worker file, at time t.
getDefaultStructure(t) == DocVal(0, 0, DocWorker, t)

\* Line 256: the number of backups kept.
KeepBackups == 10

\* The documents a run may start with, and the damaged ones.
InitDocs == { Absent, Text(OldDoc) }
DamagedDocs == { Fixable(OldDoc), Garbage }

\* The backups a run may start with, made before the run (at times before 0):
\* none, a valid one, a damaged one, or a valid one and a newer damaged one.
BkDoc == DocVal(3, 3, "nova", 0)
InitBackups ==
    { {},
      { [ts |-> 0 - 1, bytes |-> Text(BkDoc)] },
      { [ts |-> 0 - 1, bytes |-> Garbage] },
      { [ts |-> 0 - 2, bytes |-> Text(BkDoc)], [ts |-> 0 - 1, bytes |-> Garbage] } }

VARIABLES
    now,        \* Date.now(), in ticks
    dir,        \* whether path.dirname(filePath) exists
    nextId,     \* the next fresh uuid
    lockFile,   \* `${filePath}.lock`: NoLockFile, or the lock data written in it
    target,     \* the bytes of filePath
    temp,       \* temp[p]: the bytes of the temp file of p's atomicWrite
    backups,    \* the files of .backups/: a set of [ts, bytes]
    locks,      \* locks[p]: this.locks.get(filePath) of process p, with the
                \* timestamp of its lock data and the due time of the timer
                \* started for that lockId
    pc,         \* pc[p]: the await the process is at ("idle": between calls)
    stk,        \* stk[p]: the callers of the running function, innermost last
    loc,        \* loc[p]: the local variables of the running call chain
    tok,        \* tok[p]: the lockId the process's caller last got (0: none)
    out         \* out[p]: how the process's last top-level call ended

vars == <<now, dir, nextId, lockFile, target, temp, backups, locks, pc, stk, loc, tok, out>>

\* The files of the document: its lock file, its bytes, its backups.
files == <<lockFile, target, backups>>

\* ---------------------------------------------------------------- helpers

\* What is remembered of an updateWorkerStatus, by the call itself and by the
\* readWorkerStatus its process makes right after it: the document's bytes and
\* the time when it was called, and its updates.
NoHist == [pre |-> Absent, u |-> NoUpdates, t |-> 0]

\* The local variables: of acquireLock (timeout, lid, ts: the lock data; old:
\* the lockId of the stale lock found), of atomicWrite (data: dataString;
\* wlock: lockId; err: the error caught; pre: the document's bytes when it
\* began), of updateWorkerStatus (u, olock, cur: updatedData), of safeJSONRead (rec: recovered), of
\* restoreFromBackup (bts: the newest backup's timestamp; content; rlock);
\* n: the number of createBackup calls the process has completed in a row;
\* seen: the content safeJSONRead read last (lines 136, 142).
NoLoc ==
    [timeout |-> 0, lid |-> 0, ts |-> 0, old |-> 0,
     data |-> Absent, wlock |-> 0, err |-> None, pre |-> Absent,
     u |-> NoUpdates, olock |-> 0, cur |-> NoVal,
     rec |-> NoVal, bts |-> 0, content |-> Absent, rlock |-> 0,
     hist |-> NoHist, n |-> 0, seen |-> Absent]

\* The locals with those of a callee that has returned cleared.
ClearAcq(l) == [l EXCEPT !.timeout = 0, !.lid = 0, !.ts = 0, !.old = 0]
ClearWrite(l) == [l EXCEPT !.data = Absent, !.wlock = 0, !.err = None, !.pre = Absent]
ClearRestore(l) ==
    [l EXCEPT !.rec = NoVal, !.bts = 0, !.content = Absent, !.rlock = 0]

\* How a top-level call ended: the function, the error thrown (None: it
\* returned), the lockId returned or passed, the lockId of the stale lock an
\* acquireLock removed, the document's bytes when an atomicWrite began (for a
\* read: the content safeJSONRead read last), the
\* value returned, the update remembered, the number of createBackup calls
\* completed in a row.
NoOut ==
    [op |-> None, err |-> None, val |-> 0, old |-> 0, pre |-> Absent,
     ret |-> NoVal, hist |-> NoHist, n |-> 0]
Outcome(op, err, val) == [NoOut EXCEPT !.op = op, !.err = err, !.val = val]

\* A slip of readLockFile: an unreadable lock file counts as just written.
readLockFileAsFresh(f) ==
    IF f.st = "ok" THEN f
    ELSE [st |-> "ok", lockId |-> 0, workerId |-> "unknown", timestamp |-> now]

\* readLockFile (lines 76-83): the parsed lock data, or a record with
\* timestamp 0 (the Unix epoch, far in the past of any clock value) when the
\* file cannot be read.
EpochTs == 0 - (MaxTime + maxLockTime + 1)
readLockFile(f) ==
    IF f.st = "ok" THEN f
    ELSE [st |-> "ok", lockId |-> 0, workerId |-> "unknown", timestamp |-> EpochTs]

\* Two slips of the staleness test: one that forgets the timeout, one that
\* is off by one tick.
IsStaleIgnoringTimeout(lockData, t, timeout) == t - lockData.timestamp > 0
IsStaleLate(lockData, t, timeout) == t - lockData.timestamp > timeout + 1

\* The staleness test of line 29.
IsStale(lockData, t, timeout) == t - lockData.timestamp > timeout

\* releaseLock (lines 59-71) for process p and lockId id: whether it acts.
ReleaseActs(p, id) == locks[p] # NoEntry /\ locks[p].lockId = id

\* The effect of releaseLock on the lock file and on this.locks.
ReleaseEffect(p, id) ==
    IF ReleaseActs(p, id)
    THEN /\ lockFile' = NoLockFile
         /\ locks' = [locks EXCEPT ![p] = NoEntry]
    ELSE UNCHANGED <<lockFile, locks>>

\* ------------------------------------------------- calls and returns
\* A call pushes its call site on stk[p]; s and l below are the callers and
\* the locals at the return.

Pop(s) == SubSeq(s, 1, Len(s) - 1)
Ctx(s) == IF s = <<>> THEN "top" ELSE s[Len(s)]

\* Process p goes on at the await `label`.
Goto(p, label, s, l) ==
    /\ pc' = [pc EXCEPT ![p] = label]
    /\ stk' = [stk EXCEPT ![p] = s]
    /\ loc' = [loc EXCEPT ![p] = l]
    /\ out' = [out EXCEPT ![p] = NoOut]
    /\ UNCHANGED tok

\* The top-level call of process p ends with outcome o.
Done(p, o) ==
    /\ pc' = [pc EXCEPT ![p] = "idle"]
    /\ stk' = [stk EXCEPT ![p] = <<>>]
    /\ loc' = [loc EXCEPT ![p] = NoLoc]
    /\ out' = [out EXCEPT ![p] = o]
    /\ UNCHANGED tok

\* atomicWrite throws e: to its caller's caller (top), to the catch of
\* updateWorkerStatus (line 400), or to the catch of safeJSONRead (line 152),
\* after which restoreFromBackup runs.
WriteThrow(p, e, id, pre, s, l) ==
    CASE Ctx(s) = "top" -> Done(p, [Outcome("write", e, id) EXCEPT !.pre = pre])
      [] Ctx(s) = "upd" -> Goto(p, "upd_catch", Pop(s), [ClearWrite(l) EXCEPT !.err = e])
      [] Ctx(s) = "sr" -> Goto(p, "rb_list", Pop(s), ClearWrite(l))
      [] Ctx(s) = "wt" -> Goto(p, "wt_catch", Pop(s), [ClearWrite(l) EXCEPT !.err = e])

\* A slip of lines 96-99: the serialization is left to the write of the temp
\* file, after the backup.
WriteStartSerializesLate(p, d, id, s, l) ==
    Goto(p, "w_backup_exists", s,
         [l EXCEPT !.data = Stringify(d), !.wlock = id, !.pre = target])

\* Lines 96-97: the serialization, before the try block: a throw here runs
\* neither the catch nor the finally.
WriteStart(p, d, id, s, l) ==
    IF ~Serializable(d)
    THEN WriteThrow(p, "serialize", id, target, s, l)
    ELSE Goto(p, "w_backup_exists", s,
              [l EXCEPT !.data = Stringify(d), !.wlock = id, !.pre = target])

\* Lines 90-94: the lock check, against this.locks, then lines 96-97.
WriteEnter(p, d, id, s, l) ==
    IF ~ReleaseActs(p, id)
    THEN WriteThrow(p, "notlocked", id, target, s, l)
    ELSE WriteStart(p, d, id, s, l)

\* Lines 388-397 of updateWorkerStatus: the merge and the call of atomicWrite.
UpdWrite(p, cur, s, l) ==
    LET updatedData == Merge(cur, l.u, DocWorker, now) IN
    WriteEnter(p, ObjData(updatedData), l.olock, Append(s, "upd"),
               [l EXCEPT !.cur = updatedData])

\* status.js lines 119-124 (addCompleted; addWorking, addBlocker and
\* addComment have the same shape): readWorkerStatus has returned
\* currentData; the new list is built from it and updateWorkerStatus is
\* called with it, up to its call of acquireLock (the data directory exists
\* here, so fs.ensureDir changes nothing).
AddCompletedUpdate(p, currentData, l) ==
    LET newCompleted == AppendEntry(currentData.a, EntryOf(p))
        u == [a |-> newCompleted, b |-> Keep]
    IN Goto(p, "acq_exists", <<"upd">>,
            [NoLoc EXCEPT !.u = u, !.timeout = maxLockTime,
                          !.hist = [pre |-> target, u |-> u, t |-> now]])

\* status.js lines 401-412 (batchUpdate, the completed option):
\* readWorkerStatus has returned currentData; updates.today is
\* currentData.today with the new entry appended to completed.  Here field b
\* of the document is today.in_progress, so today is the pair of fields a and
\* b.  Then lines 414-415 (the working option): readWorkerStatus is called
\* again.
BatchCompleted(p, currentData, l) ==
    LET today == [a |-> AppendEntry(currentData.a, EntryOf(p)),
                  b |-> currentData.b]
    IN Goto(p, "rd_exists", <<"bw">>, [NoLoc EXCEPT !.u = today])

\* status.js lines 415-433 (batchUpdate, the working option):
\* readWorkerStatus has returned currentData; if the task is not in
\* in_progress, updates.today is assigned currentData.today with the task
\* appended to in_progress; then updateWorkerStatus is called with updates,
\* up to its call of acquireLock.
BatchWorking(p, currentData, l) ==
    LET today == IF ~HasEntry(currentData.b, EntryOf(p))
                 THEN [a |-> currentData.a,
                       b |-> AppendEntry(currentData.b, EntryOf(p))]
                 ELSE l.u
    IN Goto(p, "acq_exists", <<"upd">>,
            [NoLoc EXCEPT !.u = today, !.timeout = maxLockTime,
                          !.hist = [pre |-> target, u |-> today, t |-> now]])

\* safeJSONRead returns v: to readWorkerStatus's caller (line 417), which is
\* the top-level caller, addCompleted or batchUpdate, or to updateWorkerStatus
\* (line 383).
SafeReadReturn(p, v, s, l) ==
    CASE Ctx(s) = "top" ->
            Done(p, [Outcome("read", None, 0) EXCEPT
                        !.ret = v, !.hist = l.hist, !.pre = l.seen])
      [] Ctx(s) = "add" -> AddCompletedUpdate(p, v, l)
      [] Ctx(s) = "bc" -> BatchCompleted(p, v, l)
      [] Ctx(s) = "bw" -> BatchWorking(p, v, l)
      [] Ctx(s) = "upd" -> UpdWrite(p, v, Pop(s), [l EXCEPT !.seen = Absent])

\* A slip of lines 157-165: the backup's content is dropped.
RestoreReturnDropsBackup(p, v, s, l) ==
    SafeReadReturn(p, getDefaultStructure(now), s, ClearRestore(l))

\* restoreFromBackup returns v (NoVal: null) to safeJSONRead, which returns it
\* or the default structure (lines 157-165).
RestoreReturn(p, v, s, l) ==
    SafeReadReturn(p, IF v = NoVal THEN getDefaultStructure(now) ELSE v, s,
                   ClearRestore(l))

\* atomicWrite returns (after the finally of line 126): to the top-level
\* caller, to updateWorkerStatus (line 399) or to safeJSONRead (line 150).
WriteReturn(p, s, l) ==
    CASE Ctx(s) = "top" ->
            Done(p, [Outcome("write", None, l.wlock) EXCEPT !.pre = l.pre])
      [] Ctx(s) = "upd" ->
            Done(p, [Outcome("update", None, l.olock) EXCEPT
                        !.ret = l.cur, !.hist = l.hist, !.pre = l.pre])
      [] Ctx(s) = "sr" -> SafeReadReturn(p, l.rec, Pop(s), ClearRestore(ClearWrite(l)))
      [] Ctx(s) = "wt" ->
            Done(p, [Outcome("take", None, l.olock) EXCEPT
                        !.ret = l.cur, !.pre = l.pre])

\* acquireLock returns lockId (line 53): to the top-level caller, to
\* updateWorkerStatus (line 377), to safeJSONRead (line 147), which passes it
\* to atomicWrite (line 148), whose lock check finds it in this.locks, where
\* line 46 has just put it, to restoreFromBackup (line 294), or to
\* writeTasksFile of the task commands, which adds last_updated and calls
\* atomicWrite with it.
AcquireReturn(p, id, s, l) ==
    CASE Ctx(s) = "top" ->
            /\ pc' = [pc EXCEPT ![p] = "idle"]
            /\ stk' = [stk EXCEPT ![p] = <<>>]
            /\ loc' = [loc EXCEPT ![p] = NoLoc]
            /\ out' = [out EXCEPT ![p] = [Outcome("acquire", None, id) EXCEPT !.old = l.old]]
            /\ tok' = [tok EXCEPT ![p] = id]
      [] Ctx(s) = "upd" -> Goto(p, "upd_exists", Pop(s), [ClearAcq(l) EXCEPT !.olock = id])
      [] Ctx(s) = "sr" -> WriteStart(p, ObjData(l.rec), id, s, ClearAcq(l))
      [] Ctx(s) = "rb" -> Goto(p, "rb_write", Pop(s), [ClearAcq(l) EXCEPT !.rlock = id])
      [] Ctx(s) = "wt" ->
            WriteStart(p, ObjData([l.cur EXCEPT !.upd = now]), id, s,
                       [ClearAcq(l) EXCEPT !.olock = id])

\* acquireLock throws, "File is locked by ..." (line 33) or the ENOENT of
\* fs.writeFile (line 45) when the directory is missing: to the top-level
\* caller, out of updateWorkerStatus (line 377 is outside its try), to the
\* catch of safeJSONRead (line 152) or to that of restoreFromBackup (line 299).
AcquireThrowErr(p, e, s, l) ==
    CASE Ctx(s) = "top" -> Done(p, Outcome("acquire", e, 0))
      [] Ctx(s) = "upd" ->
            Done(p, [Outcome("update", e, 0) EXCEPT !.hist = l.hist])
      [] Ctx(s) = "sr" -> Goto(p, "rb_list", Pop(s), ClearAcq(l))
      [] Ctx(s) = "rb" -> RestoreReturn(p, NoVal, Pop(s), ClearAcq(l))
      [] Ctx(s) = "wt" -> Done(p, Outcome("take", e, 0))

AcquireThrow(p, s, l) == AcquireThrowErr(p, "locked", s, l)

\* ---------------------------------------------------------- acquireLock

\* Lines 38-43: the lock data is built with a fresh uuid and Date.now().
BuildLockData(p) ==
    /\ nextId <= MaxIds
    /\ nextId' = nextId + 1
    /\ Goto(p, "acq_write", stk[p], [loc[p] EXCEPT !.lid = nextId, !.ts = now])

\* Line 25: await fs.pathExists(lockFile).
AcqExists(p) ==
    /\ pc[p] = "acq_exists"
    /\ IF lockFile.st # "absent"
       THEN /\ Goto(p, "acq_read", stk[p], loc[p])
            /\ UNCHANGED nextId
       ELSE BuildLockData(p)
    /\ UNCHANGED <<now, dir, lockFile, target, temp, backups, locks>>

\* Lines 26-34: await this.readLockFile(lockFile), then the staleness test.
AcqRead(p) ==
    /\ pc[p] = "acq_read"
    /\ IF IsStale(readLockFile(lockFile), now, loc[p].timeout)
       THEN Goto(p, "acq_remove", stk[p],
                 [loc[p] EXCEPT !.old = readLockFile(lockFile).lockId])
       ELSE AcquireThrow(p, stk[p], loc[p])
    /\ UNCHANGED <<now, dir, nextId, lockFile, target, temp, backups, locks>>

\* Line 31: await fs.remove(lockFile), then lines 38-43.
AcqRemove(p) ==
    /\ pc[p] = "acq_remove"
    /\ lockFile' = NoLockFile
    /\ BuildLockData(p)
    /\ UNCHANGED <<now, dir, target, temp, backups, locks>>

\* Lines 45-53: await fs.writeFile(lockFile, ...), this.locks.set, setTimeout,
\* return lockId.  fs.writeFile creates no directory: it throws ENOENT when
\* the directory of the lock file is missing.
AcqWrite(p) ==
    /\ pc[p] = "acq_write"
    /\ IF dir
       THEN /\ lockFile' = [st |-> "ok", lockId |-> loc[p].lid, workerId |-> p,
                            timestamp |-> loc[p].ts]
            /\ locks' = [locks EXCEPT ![p] =
                            [lockId |-> loc[p].lid, ts |-> loc[p].ts,
                             due |-> now + loc[p].timeout,
                             timeout |-> loc[p].timeout]]
            /\ AcquireReturn(p, loc[p].lid, stk[p], loc[p])
       ELSE /\ AcquireThrowErr(p, "enoent", stk[p], loc[p])
            /\ UNCHANGED <<lockFile, locks>>
    /\ UNCHANGED <<now, dir, nextId, target, temp, backups>>

\* Line 45, seen from another process: fs.writeFile has created or truncated
\* the lock file and has not written its content yet.
AcqOpen(p) ==
    /\ pc[p] = "acq_write"
    /\ dir
    /\ lockFile # TornLockFile
    /\ lockFile' = TornLockFile
    /\ UNCHANGED <<now, dir, nextId, target, temp, backups, locks, pc, stk, loc, tok, out>>

\* ---------------------------------------------------------- releaseLock

\* The timer of lines 49-51 fires: releaseLock(filePath, lockId) for the
\* lockId it was started for.  Only the timer of the lockId now in this.locks
\* can act (line 63; a uuid is never reused), so only that one is kept.
TimerFire(p) ==
    /\ locks[p] # NoEntry
    /\ now >= locks[p].due
    /\ ReleaseEffect(p, locks[p].lockId)
    /\ UNCHANGED <<now, dir, nextId, target, temp, backups, pc, stk, loc, tok, out>>

\* ---------------------------------------------------------- atomicWrite

\* A slip of the pruning: the oldest backups stay.
cleanOldBackupsKeepsOldest(bs) ==
    { b \in bs : Cardinality({ c \in bs : c.ts < b.ts }) < KeepBackups }

\* cleanOldBackups (lines 237-263): the KeepBackups newest backups stay.
cleanOldBackups(bs) ==
    { b \in bs : Cardinality({ c \in bs : c.ts > b.ts }) < KeepBackups }

\* Lines 218-225: fs.copy(filePath, backupFile) to the backup file named by
\* the timestamp; a backup file of that name is overwritten.
CopyBackup(bs, t, bytes) ==
    { b \in bs : b.ts # t } \cup { [ts |-> t, bytes |-> bytes] }

\* createBackup returns: to atomicWrite (line 101), which goes on to write the
\* temp file, or to a client that called it.
BackupReturn(p, s, l) ==
    IF Ctx(s) = "bk"
    THEN Done(p, [Outcome("backup", None, 0) EXCEPT !.n = l.n + 1])
    ELSE Goto(p, "w_temp", s, [l EXCEPT !.ts = 0])

\* createBackup, line 214: await fs.pathExists(filePath); line 218: timestamp.
WBackupExists(p) ==
    /\ pc[p] = "w_backup_exists"
    /\ IF target.kind = "absent"
       THEN BackupReturn(p, stk[p], loc[p])
       ELSE Goto(p, "w_backup_copy", stk[p], [loc[p] EXCEPT !.ts = now])
    /\ UNCHANGED <<now, dir, nextId, lockFile, target, temp, backups, locks>>

\* createBackup, lines 223-231: fs.ensureDir, fs.copy and cleanOldBackups; a
\* failure (ok = FALSE, or the document is gone by now) is caught and logged.
WBackupCopy(p, ok) ==
    /\ pc[p] = "w_backup_copy"
    /\ IF ok /\ target.kind # "absent"
       THEN backups' = cleanOldBackups(CopyBackup(backups, loc[p].ts, target))
       ELSE UNCHANGED backups
    /\ BackupReturn(p, stk[p], loc[p])
    /\ UNCHANGED <<now, dir, nextId, lockFile, target, temp, locks>>

\* Lines 104-110: fs.writeFile(tempFile, dataString), then the temp file is read
\* back and parsed (the path ends in .json).  A failed write (ok = FALSE)
\* leaves a torn temp file.
WTemp(p, ok) ==
    /\ pc[p] = "w_temp"
    /\ IF ~ok
       THEN /\ temp' = [temp EXCEPT ![p] = Garbage]
            /\ Goto(p, "w_cleanup", stk[p], [loc[p] EXCEPT !.err = "io"])
       ELSE /\ temp' = [temp EXCEPT ![p] = loc[p].data]
            /\ IF ParseOk(loc[p].data)
               THEN Goto(p, "w_move_remove", stk[p], loc[p])
               ELSE Goto(p, "w_cleanup", stk[p], [loc[p] EXCEPT !.err = "validation"])
    /\ UNCHANGED <<now, dir, nextId, lockFile, target, backups, locks>>

\* Line 113, fs.move(tempFile, filePath, {overwrite: true}) of fs-extra, first
\* half: with overwrite the library removes the destination ...
WMoveRemove(p, ok) ==
    /\ pc[p] = "w_move_remove"
    /\ IF ok
       THEN /\ target' = Absent
            /\ Goto(p, "w_move_rename", stk[p], loc[p])
       ELSE /\ Goto(p, "w_cleanup", stk[p], [loc[p] EXCEPT !.err = "io"])
            /\ UNCHANGED target
    /\ UNCHANGED <<now, dir, nextId, lockFile, temp, backups, locks>>

\* ... second half: and then renames the source to it.
WMoveRename(p, ok) ==
    /\ pc[p] = "w_move_rename"
    /\ IF ok
       THEN /\ target' = temp[p]
            /\ temp' = [temp EXCEPT ![p] = Absent]
            /\ Goto(p, "w_release", stk[p], loc[p])
       ELSE /\ Goto(p, "w_cleanup", stk[p], [loc[p] EXCEPT !.err = "io"])
            /\ UNCHANGED <<target, temp>>
    /\ UNCHANGED <<now, dir, nextId, lockFile, backups, locks>>

\* Lines 117-126 after a failure: the catch removes the temp file, the finally
\* releases the lock, "Atomic write failed" is thrown.
WCleanup(p) ==
    /\ pc[p] = "w_cleanup"
    /\ temp' = [temp EXCEPT ![p] = Absent]
    /\ ReleaseEffect(p, loc[p].wlock)
    /\ WriteThrow(p, loc[p].err, loc[p].wlock, loc[p].pre, stk[p], loc[p])
    /\ UNCHANGED <<now, dir, nextId, target, backups>>

\* Lines 124-127 after the move: the finally releases the lock.
WRelease(p) ==
    /\ pc[p] = "w_release"
    /\ ReleaseEffect(p, loc[p].wlock)
    /\ WriteReturn(p, stk[p], loc[p])
    /\ UNCHANGED <<now, dir, nextId, target, temp, backups>>

\* ---------------------------------------------------- updateWorkerStatus

\* Line 382: await fs.pathExists(statusFile); then safeJSONRead is called
\* (line 383), or the default structure is taken (line 385) and merged.
UpdExists(p) ==
    /\ pc[p] = "upd_exists"
    /\ IF target.kind # "absent"
       THEN Goto(p, "sr_read", Append(stk[p], "upd"), loc[p])
       ELSE UpdWrite(p, getDefaultStructure(now), stk[p], loc[p])
    /\ UNCHANGED <<now, dir, nextId, lockFile, target, temp, backups, locks>>

\* Lines 400-403: the catch releases the lock and throws the error again.
UpdCatch(p) ==
    /\ pc[p] = "upd_catch"
    /\ ReleaseEffect(p, loc[p].olock)
    /\ Done(p, [Outcome("update", loc[p].err, loc[p].olock) EXCEPT !.hist = loc[p].hist])
    /\ UNCHANGED <<now, dir, nextId, target, temp, backups>>

\* ------------------------------------------------------ readWorkerStatus

\* Line 413: await fs.pathExists(statusFile); the default structure is
\* returned (line 414), or safeJSONRead is called (line 417).
RdExists(p) ==
    /\ pc[p] = "rd_exists"
    /\ IF target.kind = "absent"
       THEN CASE Ctx(stk[p]) = "add" ->
                    AddCompletedUpdate(p, getDefaultStructure(now), loc[p])
              [] Ctx(stk[p]) = "bc" ->
                    BatchCompleted(p, getDefaultStructure(now), loc[p])
              [] Ctx(stk[p]) = "bw" ->
                    BatchWorking(p, getDefaultStructure(now), loc[p])
              [] OTHER ->
                    Done(p, [Outcome("read", None, 0) EXCEPT
                        !.ret = getDefaultStructure(now), !.hist = loc[p].hist])
       ELSE Goto(p, "sr_read", stk[p], loc[p])
    /\ UNCHANGED <<now, dir, nextId, lockFile, target, temp, backups, locks>>

\* ---------------------------------------------------------- safeJSONRead

\* A slip of lines 136-137: the read keeps a backup of the bytes it read.
SrReadTakesBackup(p) ==
    /\ pc[p] = "sr_read"
    /\ IF ParseOk(target)
       THEN SafeReadReturn(p, Parse(target), stk[p], [loc[p] EXCEPT !.seen = target])
       ELSE Goto(p, "sr_read2", stk[p], loc[p])
    /\ backups' = IF ParseOk(target) THEN CopyBackup(backups, now, target) ELSE backups
    /\ UNCHANGED <<now, dir, nextId, lockFile, target, temp, locks>>

\* Lines 136-137: await fs.readFile(filePath), JSON.parse(content).
SrRead(p) ==
    /\ pc[p] = "sr_read"
    /\ IF ParseOk(target)
       THEN SafeReadReturn(p, Parse(target), stk[p], [loc[p] EXCEPT !.seen = target])
       ELSE Goto(p, "sr_read2", stk[p], loc[p])
    /\ UNCHANGED <<now, dir, nextId, lockFile, target, temp, backups, locks>>

\* Lines 142-147: the file is read again and repaired; acquireLock is called
\* for the write of the repaired value.  A failed read or repair leads to
\* restoreFromBackup (line 157).
SrRead2(p) ==
    /\ pc[p] = "sr_read2"
    /\ IF RecoveryOk(target)
       THEN Goto(p, "acq_exists", Append(stk[p], "sr"),
                 [loc[p] EXCEPT !.rec = attemptJSONRecovery(target),
                                !.timeout = maxLockTime, !.seen = target])
       ELSE Goto(p, "rb_list", stk[p], [loc[p] EXCEPT !.seen = target])
    /\ UNCHANGED <<now, dir, nextId, lockFile, target, temp, backups, locks>>

\* ------------------------------------------------------ restoreFromBackup

\* Lines 272-290: fs.pathExists(backupDir) and fs.readdir(backupDir): the
\* newest backup is chosen, or null is returned.  (Backups appear and never
\* all disappear, so the two awaits see what the second alone sees.)
RbList(p) ==
    /\ pc[p] = "rb_list"
    /\ IF backups = {}
       THEN RestoreReturn(p, NoVal, stk[p], loc[p])
       ELSE Goto(p, "rb_readbk", stk[p],
                 [loc[p] EXCEPT !.bts = CHOOSE t \in {b.ts : b \in backups} :
                                           \A b \in backups : b.ts <= t])
    /\ UNCHANGED <<now, dir, nextId, lockFile, target, temp, backups, locks>>

\* Lines 291-294: await fs.readFile(latestBackup), then acquireLock is called.
\* If the backup is gone by now the read throws and null is returned.
RbReadBk(p) ==
    /\ pc[p] = "rb_readbk"
    /\ IF \E b \in backups : b.ts = loc[p].bts
       THEN Goto(p, "acq_exists", Append(stk[p], "rb"),
                 [loc[p] EXCEPT
                    !.content = (CHOOSE b \in backups : b.ts = loc[p].bts).bytes,
                    !.timeout = maxLockTime])
       ELSE RestoreReturn(p, NoVal, stk[p], loc[p])
    /\ UNCHANGED <<now, dir, nextId, lockFile, target, temp, backups, locks>>

\* Line 295: await fs.writeFile(filePath, content), in place.  A failed write
\* (ok = FALSE) leaves a torn document, is caught at line 299, and null is
\* returned with the lock still held.
RbWrite(p, ok) ==
    /\ pc[p] = "rb_write"
    /\ IF ok
       THEN /\ target' = loc[p].content
            /\ Goto(p, "rb_release", stk[p], loc[p])
       ELSE /\ target' = Garbage
            /\ RestoreReturn(p, NoVal, stk[p], loc[p])
    /\ UNCHANGED <<now, dir, nextId, lockFile, temp, backups, locks>>

\* Lines 296-302: releaseLock, then JSON.parse(content) is returned, or null
\* if it throws.
RbRelease(p) ==
    /\ pc[p] = "rb_release"
    /\ ReleaseEffect(p, loc[p].rlock)
    /\ RestoreReturn(p, IF ParseOk(loc[p].content) THEN Parse(loc[p].content) ELSE NoVal,
                     stk[p], loc[p])
    /\ UNCHANGED <<now, dir, nextId, target, temp, backups>>

\* ------------------------------------------------------ addWorkerComment
\* (src/ai/project-manager.js, lines 694-704)

\* Line 696: await fs.pathExists(statusPath); nothing is done for a missing
\* file.
AwcExists(p) ==
    /\ pc[p] = "awc_exists"
    /\ IF target.kind = "absent"
       THEN Done(p, Outcome("comment", None, 0))
       ELSE Goto(p, "awc_read", stk[p], loc[p])
    /\ UNCHANGED <<now, dir, nextId, lockFile, target, temp, backups, locks>>

\* Lines 697-700: await fs.readJSON(statusPath), which throws on a missing or
\* unparseable file; the comment is appended (a field the model does not
\* keep) and last_update is set.
AwcRead(p) ==
    /\ pc[p] = "awc_read"
    /\ IF ParseOk(target)
       THEN Goto(p, "awc_write", stk[p],
                 [loc[p] EXCEPT !.cur = [Parse(target) EXCEPT !.upd = now]])
       ELSE Done(p, Outcome("comment", "parse", 0))
    /\ UNCHANGED <<now, dir, nextId, lockFile, target, temp, backups, locks>>

\* Line 702: await fs.writeJSON(statusPath, status), in place.
AwcWrite(p) ==
    /\ pc[p] = "awc_write"
    /\ target' = Text(loc[p].cur)
    /\ Done(p, Outcome("comment", None, 0))
    /\ UNCHANGED <<now, dir, nextId, lockFile, temp, backups, locks>>

\* ------------------------------------------------------ top-level calls

\* A caller calls atomicWrite(filePath, d, lockId) with the lockId it got last
\* (0: it got none).
CallWrite(p, d) ==
    /\ pc[p] = "idle"
    /\ WriteEnter(p, d, tok[p], <<>>, NoLoc)
    /\ UNCHANGED <<now, dir, nextId, lockFile, target, temp, backups, locks>>

\* A caller calls acquireLock(filePath, timeout).
CallAcquire(p, t) ==
    /\ pc[p] = "idle"
    /\ Goto(p, "acq_exists", <<>>, [NoLoc EXCEPT !.timeout = t])
    /\ UNCHANGED <<now, dir, nextId, lockFile, target, temp, backups, locks>>

\* A caller calls releaseLock(filePath, lockId) with the lockId it got.
CallRelease(p) ==
    /\ pc[p] = "idle"
    /\ tok[p] # 0
    /\ Goto(p, "rel", <<>>, [NoLoc EXCEPT !.wlock = tok[p]])
    /\ UNCHANGED <<now, dir, nextId, lockFile, target, temp, backups, locks>>

\* releaseLock called by the top-level caller (lines 59-71).
Release(p) ==
    /\ pc[p] = "rel"
    /\ ReleaseEffect(p, loc[p].wlock)
    /\ Done(p, Outcome("release", None, loc[p].wlock))
    /\ UNCHANGED <<now, dir, nextId, target, temp, backups>>

\* A caller calls updateWorkerStatus(DocWorker, u): lines 371-377, up to the
\* call of acquireLock; fs.ensureDir (line 375) creates the data directory if
\* it is missing.
CallUpdate(p, u) ==
    /\ pc[p] = "idle"
    /\ Goto(p, "acq_exists", <<"upd">>,
            [NoLoc EXCEPT !.u = u, !.timeout = maxLockTime,
                          !.hist = [pre |-> target, u |-> u, t |-> now]])
    /\ dir' = TRUE
    /\ UNCHANGED <<now, nextId, lockFile, target, temp, backups, locks>>

\* A caller calls readWorkerStatus(DocWorker) (lines 409-413).
CallRead(p) ==
    /\ pc[p] = "idle"
    /\ Goto(p, "rd_exists", <<>>,
            [NoLoc EXCEPT !.hist = IF out[p].op = "update" /\ out[p].err = None
                                   THEN out[p].hist ELSE NoHist])
    /\ UNCHANGED <<now, dir, nextId, lockFile, target, temp, backups, locks>>

\* A worker runs the take command on the task: takeTask of the task commands,
\* up to readTasksFile's fs.ensureDir.
CallTakeTask(p) ==
    /\ pc[p] = "idle"
    /\ Goto(p, "tk_exists", <<>>, NoLoc)
    /\ dir' = TRUE
    /\ UNCHANGED <<now, nextId, lockFile, target, temp, backups, locks>>

\* readTasksFile: await fs.pathExists(this.tasksFile); with no file the task
\* list is empty and takeTask throws "Task not found".
TkExists(p) ==
    /\ pc[p] = "tk_exists"
    /\ IF target.kind = "absent"
       THEN Done(p, Outcome("take", "notfound", 0))
       ELSE Goto(p, "tk_read", stk[p], loc[p])
    /\ UNCHANGED <<now, dir, nextId, lockFile, target, temp, backups, locks>>

\* readTasksFile: await fs.readFile, JSON.parse (a failure gives an empty
\* task list); then takeTask: the task is looked up, must not be assigned to
\* another worker, is assigned to this one, and writeTasksFile is called, up
\* to its call of acquireLock.  No lock is held while the file is read.
TkRead(p) ==
    /\ pc[p] = "tk_read"
    /\ IF ~ParseOk(target)
       THEN Done(p, Outcome("take", "notfound", 0))
       ELSE LET task == Parse(target) IN
            IF task.a # Unassigned /\ task.a # WorkerNo(p)
            THEN Done(p, Outcome("take", "assigned", 0))
            ELSE Goto(p, "acq_exists", <<"wt">>,
                      [NoLoc EXCEPT !.timeout = maxLockTime,
                                    !.cur = [task EXCEPT !.a = WorkerNo(p)]])
    /\ UNCHANGED <<now, dir, nextId, lockFile, target, temp, backups, locks>>

\* writeTasksFile: the catch releases the lock and throws the error again.
WtCatch(p) ==
    /\ pc[p] = "wt_catch"
    /\ ReleaseEffect(p, loc[p].olock)
    /\ Done(p, Outcome("take", loc[p].err, loc[p].olock))
    /\ UNCHANGED <<now, dir, nextId, target, temp, backups>>

\* A worker runs the addCompleted command with one task: status.js lines
\* 110-118, up to the call of readWorkerStatus.
CallAddCompleted(p) ==
    /\ pc[p] = "idle"
    /\ Goto(p, "rd_exists", <<"add">>, NoLoc)
    /\ UNCHANGED <<now, dir, nextId, lockFile, target, temp, backups, locks>>

\* A worker runs the update command with a completed and a working option:
\* status.js lines 389-402 of batchUpdate, up to the first call of
\* readWorkerStatus.
CallBatchUpdate(p) ==
    /\ pc[p] = "idle"
    /\ Goto(p, "rd_exists", <<"bc">>, NoLoc)
    /\ UNCHANGED <<now, dir, nextId, lockFile, target, temp, backups, locks>>

\* A caller calls safeJSONRead(filePath) (lines 134-136).
CallSafeRead(p) ==
    /\ pc[p] = "idle"
    /\ Goto(p, "sr_read", <<>>, NoLoc)
    /\ UNCHANGED <<now, dir, nextId, lockFile, target, temp, backups, locks>>

\* A caller calls addWorkerComment(DocWorker, comment) of the project manager.
CallComment(p) ==
    /\ pc[p] = "idle"
    /\ Goto(p, "awc_exists", <<>>, NoLoc)
    /\ UNCHANGED <<now, dir, nextId, lockFile, target, temp, backups, locks>>

\* A caller calls createBackup(filePath) (lines 213-214).
CallBackup(p) ==
    /\ pc[p] = "idle"
    /\ Goto(p, "w_backup_exists", <<"bk">>,
            [NoLoc EXCEPT !.n = IF out[p].op = "backup" THEN out[p].n ELSE 0])
    /\ UNCHANGED <<now, dir, nextId, lockFile, target, temp, backups, locks>>

\* The process dies (and a new one takes its name): its memory and timers are
\* gone, the files stay; if it dies inside fs.writeFile(lockFile) (line 45)
\* the lock file may be left torn.  Its temp file stays too, under a name no
\* later call uses or reads; the model forgets it.  The outcome remembers the
\* lockId the process recorded.
Crash(p) ==
    /\ pc[p] # "idle" \/ locks[p] # NoEntry
    /\ pc' = [pc EXCEPT ![p] = "idle"]
    /\ stk' = [stk EXCEPT ![p] = <<>>]
    /\ loc' = [loc EXCEPT ![p] = NoLoc]
    /\ out' = [out EXCEPT ![p] = [NoOut EXCEPT !.op = "crash", !.val = locks[p].lockId]]
    /\ tok' = [tok EXCEPT ![p] = 0]
    /\ locks' = [locks EXCEPT ![p] = NoEntry]
    /\ temp' = [temp EXCEPT ![p] = Absent]
    /\ lockFile' \in (IF pc[p] = "acq_write" THEN {lockFile, TornLockFile} ELSE {lockFile})
    /\ UNCHANGED <<now, dir, nextId, target, backups>>

\* Time passes, up to max.
TickTo(max) ==
    /\ now < max
    /\ now' = now + 1
    /\ UNCHANGED <<dir, nextId, lockFile, target, temp, backups, locks, pc, stk, loc, tok, out>>

Tick == TickTo(MaxTime)

\* ------------------------------------------------------- specification

InitFiles(d, docs, bks) ==
    /\ now = 0
    /\ dir = d
    /\ nextId = 1
    /\ lockFile = NoLockFile
    /\ target \in docs
    /\ temp = [p \in Procs |-> Absent]
    /\ backups \in bks
    /\ locks = [p \in Procs |-> NoEntry]
    /\ pc = [p \in Procs |-> "idle"]
    /\ stk = [p \in Procs |-> <<>>]
    /\ loc = [p \in Procs |-> NoLoc]
    /\ tok = [p \in Procs |-> 0]
    /\ out = [p \in Procs |-> NoOut]

InitWith(docs, bks) == InitFiles(TRUE, docs, bks)

Init == InitWith(InitDocs, {{}})

\* The steps of acquireLock and the timer.
LockStep(p) ==
    \/ AcqExists(p)
    \/ AcqRead(p)
    \/ AcqRemove(p)
    \/ AcqWrite(p)
    \/ TimerFire(p)

\* The steps of atomicWrite when no filesystem call fails.
WriteStep(p) ==
    \/ WBackupExists(p)
    \/ WBackupCopy(p, TRUE)
    \/ WTemp(p, TRUE)
    \/ WMoveRemove(p, TRUE)
    \/ WMoveRename(p, TRUE)
    \/ WRelease(p)

\* The steps of safeJSONRead and restoreFromBackup.
ReadStep(p) ==
    \/ SrRead(p)
    \/ SrRead2(p)
    \/ RbList(p)
    \/ RbReadBk(p)
    \/ \E ok \in BOOLEAN : RbWrite(p, ok)
    \/ RbRelease(p)

\* The lock manager: every process acquires and releases, and may crash.
Next ==
    \/ Tick
    \/ \E p \in Procs :
        \/ \E t \in Timeouts : CallAcquire(p, t)
        \/ CallRelease(p)
        \/ Release(p)
        \/ LockStep(p)
        \/ Crash(p)

Spec == Init /\ [][Next]_vars

\* The atomic writer: p1 acquires, releases and writes; p2 acquires and
\* releases.
NextWrite ==
    \/ Tick
    \/ \E p \in Procs :
        \/ \E t \in Timeouts : CallAcquire(p, t)
        \/ CallRelease(p)
        \/ Release(p)
        \/ LockStep(p)
    \/ \E d \in WriteData : CallWrite("p1", d)
    \/ WBackupExists("p1")
    \/ \E ok \in BOOLEAN : WBackupCopy("p1", ok)
    \/ \E ok \in BOOLEAN : WTemp("p1", ok)
    \/ \E ok \in BOOLEAN : WMoveRemove("p1", ok)
    \/ \E ok \in BOOLEAN : WMoveRename("p1", ok)
    \/ WCleanup("p1")
    \/ WRelease("p1")

SpecWrite == Init /\ [][NextWrite]_vars

\* Concurrent updates: every process calls updateWorkerStatus once, p1 to
\* set one field and p2 to set the other; no filesystem call fails.
NextUpdate ==
    \/ Tick
    \/ out["p1"].op = None /\ CallUpdate("p1", SetA)
    \/ out["p2"].op = None /\ CallUpdate("p2", SetB)
    \/ \E p \in Procs :
        \/ LockStep(p)
        \/ UpdExists(p)
        \/ UpdCatch(p)
        \/ WriteStep(p)
        \/ ReadStep(p)

SpecUpdate == Init /\ [][NextUpdate]_vars

\* One process alone: p1 calls updateWorkerStatus and readWorkerStatus, on a
\* document that may be damaged and may have a backup; filesystem calls may
\* fail.
InitSeq ==
    InitWith(InitDocs \cup DamagedDocs, {{}, {[ts |-> 0, bytes |-> Text(OldDoc)]}})

NextSeq ==
    \/ Tick
    \/ \E u \in Updates : CallUpdate("p1", u)
    \/ CallRead("p1")
    \/ LockStep("p1")
    \/ UpdExists("p1")
    \/ UpdCatch("p1")
    \/ RdExists("p1")
    \/ WBackupExists("p1")
    \/ \E ok \in BOOLEAN : WBackupCopy("p1", ok)
    \/ \E ok \in BOOLEAN : WTemp("p1", ok)
    \/ \E ok \in BOOLEAN : WMoveRemove("p1", ok)
    \/ \E ok \in BOOLEAN : WMoveRename("p1", ok)
    \/ WCleanup("p1")
    \/ WRelease("p1")
    \/ ReadStep("p1")

SpecSeq == InitSeq /\ [][NextSeq]_vars

\* A reader beside a writer: p1 acquires the lock and writes NewDoc over the
\* existing OldDoc, p2 calls readWorkerStatus; no filesystem call of the
\* writer fails.
InitRead == InitWith({Text(OldDoc)}, {{}})

NextRead ==
    \/ Tick
    \/ \E t \in Timeouts : CallAcquire("p1", t)
    \/ CallWrite("p1", ObjData(NewDoc))
    \/ WriteStep("p1")
    \/ CallRead("p2")
    \/ RdExists("p2")
    \/ ReadStep("p2")
    \/ \E p \in Procs : LockStep(p)

SpecRead == InitRead /\ [][NextRead]_vars

\* Recovery: p1 calls safeJSONRead on a document that may be missing or
\* damaged, with the backups there may be, while p2 acquires and releases the
\* lock; no filesystem call fails.
InitRecover == InitWith(InitDocs \cup DamagedDocs, InitBackups)

NextRecover ==
    \/ Tick
    \/ CallSafeRead("p1")
    \/ SrRead("p1")
    \/ SrRead2("p1")
    \/ RbList("p1")
    \/ RbReadBk("p1")
    \/ RbWrite("p1", TRUE)
    \/ RbRelease("p1")
    \/ WriteStep("p1")
    \/ \E t \in Timeouts : CallAcquire("p2", t)
    \/ CallRelease("p2")
    \/ Release("p2")
    \/ \E p \in Procs : LockStep(p)

SpecRecover == InitRecover /\ [][NextRecover]_vars

\* The project manager beside the store: p1 acquires the lock and calls
\* atomicWrite, p2 calls addWorkerComment; no filesystem call fails.
NextComment ==
    \/ Tick
    \/ \E t \in Timeouts : CallAcquire("p1", t)
    \/ CallWrite("p1", ObjData(NewDoc))
    \/ LockStep("p1")
    \/ WriteStep("p1")
    \/ CallComment("p2")
    \/ AwcExists("p2")
    \/ AwcRead("p2")
    \/ AwcWrite("p2")

SpecComment == Init /\ [][NextComment]_vars

\* Backup rotation: p1 calls createBackup on the existing document again and
\* again, each call at a later clock value than the backups made so far (the
\* filesystem calls between two backups of a sequential run take longer than
\* the clock's resolution); no filesystem call fails.
InitBackup == InitWith({Text(OldDoc)}, {{}})

NextBackup ==
    \/ TickTo(MaxStamp)
    \/ (\A b \in backups : b.ts < now) /\ CallBackup("p1")
    \/ WBackupExists("p1")
    \/ WBackupCopy("p1", TRUE)

SpecBackup == InitBackup /\ [][NextBackup]_vars

\* ------------------------------------------------------------ claims

\* The lock manager with callers that pass different timeouts, and with the
\* write of the lock file seen in two steps by the other process.
NextLock ==
    \/ TickTo(MaxTime)
    \/ \E p \in Procs :
        \/ \E t \in AnyTimeouts : CallAcquire(p, t)
        \/ CallRelease(p)
        \/ Release(p)
        \/ LockStep(p)
        \/ AcqOpen(p)

SpecLock == Init /\ [][NextLock]_vars

\* A store whose directory may be missing: p1 calls acquireLock without
\* creating the directory first, as config set does (line 497 of the command
\* module); p2 runs updateWorkerStatus.  No filesystem call fails
\* for a reason other than the missing directory.
InitDir ==
    \E d \in BOOLEAN :
        InitFiles(d, IF d THEN InitDocs ELSE {Absent}, {{}})

NextDir ==
    \/ Tick
    \/ CallAcquire("p1", maxLockTime)
    \/ CallRelease("p1")
    \/ Release("p1")
    \/ out["p2"].op = None /\ CallUpdate("p2", SetA)
    \/ UpdExists("p2")
    \/ UpdCatch("p2")
    \/ SrRead("p2")
    \/ WriteStep("p2")
    \/ \E p \in Procs : LockStep(p)

SpecDir == InitDir /\ [][NextDir]_vars

\* The status list commands: each process runs addCompleted once, with an
\* entry of its own, on a worker document with an empty list.  Both commands
\* run within the lock timeout and no filesystem call fails, except the
\* overwrite of restoreFromBackup.
InitStatus == InitWith({Absent, Text(EmptyDoc)}, {{}})

NextStatus ==
    \E p \in Procs :
        \/ out[p].op = None /\ CallAddCompleted(p)
        \/ RdExists(p)
        \/ ReadStep(p)
        \/ AcqExists(p)
        \/ AcqRead(p)
        \/ AcqWrite(p)
        \/ UpdExists(p)
        \/ UpdCatch(p)
        \/ WriteStep(p)

SpecStatus == InitStatus /\ [][NextStatus]_vars

\* The task commands: the document is tasks.json with one unassigned task,
\* and each process runs takeTask on it once, within the lock timeout.  The
\* write of the temp file may fail.
InitTasks == InitWith({Text(TaskDoc(Unassigned))}, {{}})

NextTasks ==
    \E p \in Procs :
        \/ out[p].op = None /\ CallTakeTask(p)
        \/ TkExists(p)
        \/ TkRead(p)
        \/ AcqExists(p)
        \/ AcqRead(p)
        \/ AcqWrite(p)
        \/ WBackupExists(p)
        \/ WBackupCopy(p, TRUE)
        \/ \E ok \in BOOLEAN : WTemp(p, ok)
        \/ WMoveRemove(p, TRUE)
        \/ WMoveRename(p, TRUE)
        \/ WCleanup(p)
        \/ WRelease(p)
        \/ WtCatch(p)

SpecTasks == InitTasks /\ [][NextTasks]_vars

\* The batch update: each process runs batchUpdate once with a completed
\* option and a working option, both naming an entry of its own, on a worker
\* document with empty lists.  The commands run within the lock timeout and
\* no filesystem call fails, except the overwrite of restoreFromBackup.
NextBatch ==
    \E p \in Procs :
        \/ out[p].op = None /\ CallBatchUpdate(p)
        \/ RdExists(p)
        \/ ReadStep(p)
        \/ AcqExists(p)
        \/ AcqRead(p)
        \/ AcqWrite(p)
        \/ UpdExists(p)
        \/ UpdCatch(p)
        \/ WriteStep(p)

SpecBatch == InitStatus /\ [][NextBatch]_vars

\* A step of process p that leaves the await `label` other than by a crash.
Leaves(p, label) ==
    /\ pc[p] = label
    /\ pc'[p] # label
    /\ out'[p].op # "crash"

\* Process p holds a granted, unreleased lock that is not stale.
Holds(p) ==
    /\ locks[p] # NoEntry
    /\ ~IsStale([timestamp |-> locks[p].ts], now, maxLockTime)

\* C1: at most one process at a time holds a granted, non-stale, unreleased
\* lock on the path.
C1_MutualExclusion ==
    \A p, q \in Procs : p # q => ~(Holds(p) /\ Holds(q))

\* The lock with lockId id was reclaimed as stale by another process, whose
\* lockId the lock file now stores.
Reclaimed(id) ==
    \E q \in Procs :
        /\ pc[q] = "idle"
        /\ out[q].op = "acquire"
        /\ out[q].err = None
        /\ out[q].old = id
        /\ lockFile.st = "ok"
        /\ lockFile.lockId = out[q].val

\* C2: a releaseLock(path, lockId) whose lock was reclaimed as stale by
\* another process, so that the lock file stores that process's lockId,
\* changes nothing: the lock file is still there afterwards.
C2_ReleaseOnlyOwnLock ==
    [][\A p \in Procs :
        ( /\ Leaves(p, "rel")
          /\ loc[p].wlock # 0
          /\ Reclaimed(loc[p].wlock) )
        => lockFile' = lockFile]_vars

\* C3: an acquireLock that finds a lock file of another owner whose age is
\* below the timeout throws the lock-contention error, returns no lockId and
\* changes neither the lock file nor any holder's lock.
C3_ContentionFails ==
    [][\A p \in Procs :
        ( /\ Leaves(p, "acq_read")
          /\ lockFile.st = "ok"
          /\ lockFile.workerId # p
          /\ now - lockFile.timestamp < loc[p].timeout )
        => /\ pc'[p] = "idle"
           /\ out'[p].op = "acquire"
           /\ out'[p].err = "locked"
           /\ tok'[p] = tok[p]
           /\ lockFile' = lockFile
           /\ locks' = locks]_vars

\* C3's case: an acquireLock has just failed on another owner's fresh lock.
C3_Witness ==
    \E p \in Procs :
        /\ pc[p] = "idle"
        /\ out[p].op = "acquire"
        /\ out[p].err = "locked"
        /\ lockFile.st = "ok"
        /\ lockFile.workerId # p
        /\ now - lockFile.timestamp < maxLockTime

\* C4: an acquireLock that finds a lock whose age exceeds the timeout removes
\* it, succeeds and returns a fresh lockId, different from the old one, which
\* the lock file stores when it returns.
C4_StaleReclaim ==
    [][\A p \in Procs :
        /\ ( /\ Leaves(p, "acq_read")
             /\ lockFile.st = "ok"
             /\ now - lockFile.timestamp > loc[p].timeout )
           => /\ pc'[p] = "acq_remove"
              /\ loc'[p].old = lockFile.lockId
        /\ Leaves(p, "acq_remove")
           => /\ pc'[p] = "acq_write"
              /\ lockFile' = NoLockFile
              /\ loc'[p].lid # loc[p].old
              /\ loc'[p].lid \notin {lockFile.lockId} \cup {locks[q].lockId : q \in Procs}
        /\ Leaves(p, "acq_write")
           => /\ pc'[p] = "idle"
              /\ out'[p].op = "acquire"
              /\ out'[p].err = None
              /\ out'[p].val = loc[p].lid
              /\ tok'[p] = loc[p].lid
              /\ lockFile'.st = "ok"
              /\ lockFile'.lockId = loc[p].lid
              /\ locks'[p].lockId = loc[p].lid]_vars

\* C4's case: an acquireLock that removed a stale lock has returned its new
\* lockId, and the lock file stores it.
C4_Witness ==
    \E p \in Procs :
        /\ pc[p] = "idle"
        /\ out[p].op = "acquire"
        /\ out[p].err = None
        /\ out[p].old # 0
        /\ out[p].val # out[p].old
        /\ lockFile.lockId = out[p].val

\* C5: when two processes have each completed an updateWorkerStatus on the
\* document, setting different fields, while no lock taken so far can have
\* become stale, the document holds both fields' new values.
C5_NoLostUpdate ==
    ( /\ \A p \in Procs : pc[p] = "idle" /\ out[p].op = "update" /\ out[p].err = None
      /\ out["p1"].hist.u # out["p2"].hist.u
      /\ now < maxLockTime )
    => /\ ParseOk(target)
       /\ \A p \in Procs :
            /\ out[p].hist.u.a # Keep => Parse(target).a = out[p].hist.u.a
            /\ out[p].hist.u.b # Keep => Parse(target).b = out[p].hist.u.b

\* C6: with no other process, a readWorkerStatus right after a successful
\* updateWorkerStatus(w, u) on an existing valid document returns that
\* document's previous content with the fields named in u set to u's values,
\* every other field as it was, worker_id = w and a last_update taken during
\* the update.
C6_ReadYourWrite ==
    \A p \in Procs :
        ( /\ pc[p] = "idle"
          /\ out[p].op = "read"
          /\ out[p].hist # NoHist
          /\ ParseOk(out[p].hist.pre) )
        => LET D == Parse(out[p].hist.pre)
               u == out[p].hist.u
               r == out[p].ret
           IN /\ r.a = (IF u.a = Keep THEN D.a ELSE u.a)
              /\ r.b = (IF u.b = Keep THEN D.b ELSE u.b)
              /\ r.wid = DocWorker
              /\ out[p].hist.t <= r.upd
              /\ r.upd <= now

\* C6's case: a read after a successful update of an existing valid document
\* has returned, and the update left a field as it was.
C6_Witness ==
    \E p \in Procs :
        /\ pc[p] = "idle"
        /\ out[p].op = "read"
        /\ out[p].hist # NoHist
        /\ out[p].hist.pre = Text(OldDoc)
        /\ out[p].hist.u.b = Keep
        /\ out[p].ret.a = 1
        /\ out[p].ret.b = OldDoc.b

\* C7: after a failed atomicWrite the document's bytes are those it had when
\* the call began, and the call's temp file is gone.
C7_FailedWriteChangesNothing ==
    \A p \in Procs :
        (pc[p] = "idle" /\ out[p].op = "write" /\ out[p].err # None)
        => (target = out[p].pre /\ temp[p] = Absent)

\* C8: a readWorkerStatus beside an atomicWrite of NewDoc over the existing
\* OldDoc returns the complete old content or the complete new content.
C8_NoPartialRead ==
    \A p \in Procs :
        (pc[p] = "idle" /\ out[p].op = "read") => out[p].ret \in {OldDoc, NewDoc}

\* C9: once an atomicWrite that was called with its process's held lockId has
\* returned or thrown, the process no longer records that lock and the lock
\* file no longer stores it.
C9_WriteReleasesLock ==
    \A p \in Procs :
        (pc[p] = "idle" /\ out[p].op = "write" /\ out[p].err # "notlocked")
        => /\ locks[p].lockId # out[p].val
           /\ ~(lockFile.st = "ok" /\ lockFile.lockId = out[p].val)

\* C10: an atomicWrite whose lockId belongs to a lock that another process
\* reclaimed as stale, so that the lock file stores a different lockId, fails
\* with the not-locked error instead of starting to write.
C10_WriteNeedsFileLock ==
    [][\A p \in Procs, d \in WriteData :
        ( /\ CallWrite(p, d)
          /\ Serializable(d)
          /\ tok[p] # 0
          /\ Reclaimed(tok[p]) )
        => (pc'[p] = "idle" /\ out'[p].err = "notlocked")]_vars

\* C11: each time the bytes of an existing document are replaced or removed,
\* a backup file holding exactly those bytes exists.
C11_BackupPrecedesOverwrite ==
    [][(target.kind # "absent" /\ target' # target)
        => \E b \in backups : b.bytes = target]_vars

\* C12: after n sequential backups of a document (one per write), exactly
\* min(n, 10) backups remain, so at most 10 and exactly 10 from the tenth on;
\* every backup step keeps the new backup and deletes only backups older than
\* all those it keeps.
C12_BackupRetention ==
    /\ [](\A p \in Procs :
            (pc[p] = "idle" /\ out[p].op = "backup")
            => Cardinality(backups) =
                 (IF out[p].n < KeepBackups THEN out[p].n ELSE KeepBackups))
    /\ [][\A p \in Procs :
            Leaves(p, "w_backup_copy")
            => /\ \E b \in backups' : b.ts = loc[p].ts /\ b.bytes = target
               /\ Cardinality(backups') <= KeepBackups
               /\ \A r \in backups \ backups', k \in backups' : r.ts < k.ts]_vars

\* C12's case: more than 10 backups were made in a row and pruning has deleted
\* the oldest one.
C12_Witness ==
    \E p \in Procs :
        /\ pc[p] = "idle"
        /\ out[p].op = "backup"
        /\ out[p].n > KeepBackups
        /\ Cardinality(backups) = KeepBackups
        /\ \A b \in backups : b.ts > 0

\* The value is the default structure of the worker file.
IsDefault(v) == v.a = 0 /\ v.b = 0 /\ v.wid = DocWorker

C14_RepairReturnedAndPersisted ==
    \A p \in Procs :
        ( /\ pc[p] = "idle"
          /\ out[p].op = "read"
          /\ ~ParseOk(out[p].pre)
          /\ RecoveryOk(out[p].pre) )
        => /\ out[p].ret = attemptJSONRecovery(out[p].pre)
           /\ target = Text(attemptJSONRecovery(out[p].pre))

\* C15: when safeJSONRead has read content that neither parses nor repairs and
\* one backup exists, a valid one, it returns that backup's parsed content, and
\* the document's bytes are the backup's when it returns.
C15_RestoreFromBackup ==
    \A p \in Procs :
        ( /\ pc[p] = "idle"
          /\ out[p].op = "read"
          /\ out[p].pre.kind = "garbage"
          /\ backups = { [ts |-> 0 - 1, bytes |-> Text(BkDoc)] } )
        => /\ out[p].ret = BkDoc
           /\ target = Text(BkDoc)

\* C16: restoreFromBackup never overwrites the document with backup bytes
\* that do not parse; and when safeJSONRead has read content that neither
\* parses nor repairs while the newest backup is unparseable and an older one
\* is valid, it returns the older backup's content and the document holds it.
C16_NewestValidBackup ==
    /\ [][\A p \in Procs : Leaves(p, "rb_write") => ParseOk(target')]_vars
    /\ [](\A p \in Procs :
            ( /\ pc[p] = "idle"
              /\ out[p].op = "read"
              /\ out[p].pre.kind = "garbage"
              /\ \E b \in backups : ParseOk(b.bytes) /\ b.bytes = Text(BkDoc) )
            => /\ out[p].ret = BkDoc
               /\ target = Text(BkDoc))

\* C17: the timer of an earlier acquisition never removes a lock file that a
\* later acquisition created: a timer that fires after its lock was reclaimed
\* as stale by another process, whose lockId the lock file now stores, leaves
\* the lock file alone.
C17_NoScheduledRelease ==
    [][\A p \in Procs :
        (TimerFire(p) /\ Reclaimed(locks[p].lockId))
        => lockFile' = lockFile]_vars

\* C18: no lock file is dated in the future, and an acquireLock that finds a
\* lock file that is unreadable or older than the timeout, as a crashed holder
\* leaves it, removes it, writes its own and returns its lockId.
C18_CrashedLockReclaimable ==
    /\ [](lockFile.st = "ok" => lockFile.timestamp <= now)
    /\ [][\A p \in Procs :
            /\ ( /\ Leaves(p, "acq_read")
                 /\ \/ lockFile.st = "torn"
                    \/ lockFile.st = "ok" /\ now - lockFile.timestamp > loc[p].timeout )
               => pc'[p] = "acq_remove"
            /\ Leaves(p, "acq_remove")
               => pc'[p] = "acq_write" /\ lockFile' = NoLockFile
            /\ Leaves(p, "acq_write")
               => /\ pc'[p] = "idle"
                  /\ out'[p].op = "acquire"
                  /\ out'[p].err = None
                  /\ lockFile'.st = "ok"
                  /\ lockFile'.lockId = out'[p].val
                  /\ locks'[p].lockId = out'[p].val]_vars

\* C18's case: a holder has crashed without releasing, and later another
\* process's acquireLock has removed its lock and returned.
C18_Witness ==
    \E p, q \in Procs :
        /\ p # q
        /\ out[q].op = "crash"
        /\ out[q].val # 0
        /\ pc[p] = "idle"
        /\ out[p].op = "acquire"
        /\ out[p].err = None
        /\ out[p].old = out[q].val
        /\ lockFile.st = "ok"
        /\ lockFile.lockId = out[p].val

\* C19: a filesystem failure inside the backup step of atomicWrite makes the
\* call fail with an I/O error.
C19_BackupFailureSurfaced ==
    [][\A p \in Procs :
        (WBackupCopy(p, FALSE) /\ target.kind # "absent")
        => (pc'[p] = "w_cleanup" /\ loc'[p].err = "io")]_vars

\* C20: every step that changes the document's bytes is a step of the
\* fs.move of an atomicWrite whose process holds the lock the lock file
\* stores.
C20_SingleWritePath ==
    [][target' # target
        => \E p \in Procs :
            /\ Leaves(p, "w_move_remove") \/ Leaves(p, "w_move_rename")
            /\ lockFile.st = "ok"
            /\ lockFile.lockId = loc[p].wlock
            /\ locks[p].lockId = loc[p].wlock]_vars

\* C21: an atomicWrite of content that cannot be serialized, called with the
\* held lockId, ends at once with the serialization error and changes no
\* file: no backup, no temp file, the document as it was.
C21_SerializationFailureChangesNothing ==
    [][\A p \in Procs :
        (CallWrite(p, Circular) /\ ReleaseActs(p, tok[p]))
        => /\ pc'[p] = "idle"
           /\ out'[p].err = "serialize"
           /\ target' = target
           /\ backups' = backups
           /\ temp' = temp
           /\ lockFile' = lockFile]_vars

\* C21's case: an atomicWrite under a held lock has failed with the
\* serialization error on an existing document.
C21_Witness ==
    \E p \in Procs :
        /\ pc[p] = "idle"
        /\ out[p].op = "write"
        /\ out[p].err = "serialize"
        /\ target = Text(OldDoc)
        /\ locks[p].lockId = out[p].val

\* C22: when an atomicWrite on a parseable document has returned or failed,
\* the document is parseable.
C22_TargetStaysParseable ==
    \A p \in Procs :
        (pc[p] = "idle" /\ out[p].op = "write" /\ ParseOk(out[p].pre))
        => ParseOk(target)

\* C23: an acquireLock that finds a non-stale lock file written by its own
\* owner does not fail with lock contention.
C23_SameOwnerNoContention ==
    [][\A p \in Procs :
        ( /\ Leaves(p, "acq_read")
          /\ lockFile.st = "ok"
          /\ lockFile.workerId = p
          /\ ~IsStale(lockFile, now, loc[p].timeout) )
        => out'[p].err # "locked"]_vars

\* C24: a successful updateWorkerStatus on a document whose bytes do not parse
\* but repair, or neither parse nor repair while a valid backup exists, writes
\* the recovered content with the updates merged in: the fields the updates do
\* not name are those of the repaired document, or of the backup.
C24_UpdateMergesIntoRecovered ==
    \A p \in Procs :
        (pc[p] = "idle" /\ out[p].op = "update" /\ out[p].err = None)
        => LET u == out[p].hist.u
               r == out[p].ret
               Kept(D) == /\ u.a = Keep => r.a = D.a
                          /\ u.b = Keep => r.b = D.b
           IN /\ out[p].hist.pre.kind = "fixable"
                 => Kept(attemptJSONRecovery(out[p].hist.pre))
              /\ ( /\ out[p].hist.pre.kind = "garbage"
                   /\ \E b \in backups : b.ts = 0 /\ b.bytes = Text(OldDoc) )
                 => Kept(OldDoc)

\* C29: when readWorkerStatus, and so safeJSONRead, has returned to a caller
\* that held no lock, the process records no lock.
C29_ReadLeaksNoLock ==
    \A p \in Procs :
        (pc[p] = "idle" /\ out[p].op = "read") => locks[p] = NoEntry

\* C27: an acquireLock never removes the lock file it found stale, written by
\* a process that still holds that lock, before that holder's own timeout has
\* passed since the lock's recorded time.
C27_ReclaimOnlyAfterHolderTimeout ==
    [][\A p \in Procs : \A q \in Procs :
        ( /\ AcqRemove(p)
          /\ lockFile.st = "ok"
          /\ lockFile.lockId = loc[p].old
          /\ locks[q].lockId = lockFile.lockId )
        => now - lockFile.timestamp > locks[q].timeout]_vars

\* C28: an acquireLock that finds a lock file it cannot read or parse does not
\* treat it as stale: it does not go on to remove it.
C28_UnreadableLockNotStale ==
    [][\A p \in Procs :
        (Leaves(p, "acq_read") /\ lockFile.st = "torn")
        => pc'[p] # "acq_remove"]_vars

\* C30: no acquireLock and no updateWorkerStatus fails because the directory
\* of the document is missing.
C30_MissingDirectoryNoError ==
    \A p \in Procs : pc[p] = "idle" => out[p].err # "enoent"

\* C26: when two processes have each completed an addCompleted command on the
\* same worker document without error, the write of one replacing a document
\* that already held the entry of the other, the document's list holds both
\* entries.
C26_BothEntriesKept ==
    ( /\ \A p \in Procs : pc[p] = "idle" /\ out[p].op = "update" /\ out[p].err = None
      /\ \E p, q \in Procs :
            /\ p # q
            /\ ParseOk(out[q].pre)
            /\ HasEntry(Parse(out[q].pre).a, EntryOf(p)) )
    => /\ ParseOk(target)
       /\ \A p \in Procs : HasEntry(Parse(target).a, EntryOf(p))

\* C25: when two processes have each run takeTask on the same unassigned
\* task, and the one has succeeded, the other, whose write would replace a
\* document in which the task is already assigned to the first, has not
\* succeeded.
C25_TaskClaimExclusive ==
    \A p, q \in Procs :
        ( /\ p # q
          /\ pc[p] = "idle" /\ out[p].op = "take" /\ out[p].err = None
          /\ pc[q] = "idle" /\ out[q].op = "take"
          /\ ParseOk(out[q].pre)
          /\ Parse(out[q].pre).a = WorkerNo(p) )
        => out[q].err # None

\* C31: a safeJSONRead that finds bytes that parse returns the parsed value
\* and leaves the document, its lock file, its backups and the directory as
\* they were; so does a readWorkerStatus that finds no document and returns
\* the default structure.
C31_ValidReadChangesNothing ==
    [][\A p \in Procs :
        /\ (SrRead(p) /\ ParseOk(target))
           => /\ UNCHANGED <<target, lockFile, backups, temp, dir, locks>>
              /\ Ctx(stk[p]) = "top"
                 => /\ pc'[p] = "idle"
                    /\ out'[p].op = "read"
                    /\ out'[p].err = None
                    /\ out'[p].ret = Parse(target)
        /\ (RdExists(p) /\ target.kind = "absent" /\ Ctx(stk[p]) = "top")
           => /\ UNCHANGED <<target, lockFile, backups, temp, dir, locks>>
              /\ pc'[p] = "idle"
              /\ out'[p].err = None
              /\ out'[p].ret = getDefaultStructure(now)]_vars

\* C31's case: a readWorkerStatus has returned the parsed content of the
\* valid document it read, and the document still holds those bytes.
C31_Witness ==
    \E p \in Procs :
        /\ pc[p] = "idle"
        /\ out[p].op = "read"
        /\ out[p].err = None
        /\ ParseOk(out[p].pre)
        /\ out[p].ret = Parse(out[p].pre)
        /\ target = out[p].pre

\* C32: when a batchUpdate with a completed option and a working option has
\* succeeded, the document it wrote holds the new completed entry in
\* today.completed and the new task in today.in_progress.
C32_BatchAppliesEveryOption ==
    \A p \in Procs :
        (pc[p] = "idle" /\ out[p].op = "update" /\ out[p].err = None)
        => /\ HasEntry(out[p].ret.a, EntryOf(p))
           /\ HasEntry(out[p].ret.b, EntryOf(p))

====
